---- MODULE Spec2Model ----
(***************************************************************************)
(* A model of src-tauri/src/lib.rs of no-ponto: the work-session monitor   *)
(* (start_work_monitoring, monitor_work_completion, get_work_status) and   *)
(* the encrypted credential store (encrypt_data, decrypt_data,             *)
(* save_pontomais_config, get_pontomais_config).                           *)
(*                                                                         *)
(* Time is dense in the program (chrono counts nanoseconds) and the model  *)
(* keeps it by regions, counted from the local midnight of the day the     *)
(* application was launched.  A minute has PointsPerMinute marked instants *)
(* (the whole minute among them); an even clock value 2k is the marked     *)
(* instant k, an odd value 2k+1 is every instant strictly between the      *)
(* marked instants k and k+1.  One minute is UnitsPerMinute =              *)
(* 2 * PointsPerMinute clock values.  Session end instants are whole       *)
(* minutes, so the truncation toward zero of (end - t) in minutes is the   *)
(* same for every instant t of a region, and it is what NumMinutes gives   *)
(* for the region's clock value.  A sleep of 60 s after a clock reading in *)
(* region r ends in region r + UnitsPerMinute or later.  Something that    *)
(* happens after a marked instant k happens in region 2k+1 or later.       *)
(***************************************************************************)
EXTENDS Integers, Sequences, FiniteSets, TLC

VARIABLES
    now,          \* the wall clock, Local::now(), as a clock value
    state,        \* SharedState: Arc<Mutex<Option<WorkStatus>>>, the slot's content
    lock,         \* the holder of the slot's Mutex: 0 free, i > 0 monitor i
    monitors,     \* the spawned monitor_work_completion tasks, in spawn order
    starter,      \* the start_work_monitoring call in flight (between its write and its spawn)
    startResult,  \* output: what the last finished start_work_monitoring call returned
    lastRead,     \* output: what the last get_work_status call returned
    lastWrite,    \* history: the last completed write of the slot
    log,          \* history: per monitor, the alerts it fired and the passes it made
    store,        \* the in-memory entry "pontomais_config" of the store noponto.dat
    disk,         \* the entry as persisted by store.save()
    saveResult,   \* output: what the last save_pontomais_config call returned
    loadResult,   \* output: what get_pontomais_config returned, if called since the last save
    lastSaved,    \* history: the plaintext of the last save call and its outcome
    entryOrigin,  \* history: where the entry's value comes from: "none", "saved",
                  \* "altered" (a saved value with one place changed), "foreign"
    loadedConfig, \* what get_pontomais_config gave the last fetch call
    fetchPc,      \* where fetch_pontomais_hours is: "idle", "awaiting" (in send().await),
                  \* "reading" (in text().await)
    requests,     \* history: the requests the last fetch call has sent
    response,     \* the status the fetch holds, and (history) the body it read
    fetchResult   \* output: what the last fetch_pontomais_hours call returned

\* The program's variables of the monitor, its outputs and histories, and
\* the variables of the credential store.
progVars == <<now, state, lock, monitors, starter>>
obsVars == <<startResult, lastRead, lastWrite, log>>
vaultVars == <<store, disk, saveResult, loadResult, lastSaved, entryOrigin>>

fetchVars == <<loadedConfig, fetchPc, requests, response, fetchResult>>

vars == <<now, state, lock, monitors, starter, startResult, lastRead, lastWrite, log,
          store, disk, saveResult, loadResult, lastSaved, entryOrigin,
          loadedConfig, fetchPc, requests, response, fetchResult>>

----------------------------------------------------------------------------
(* Bounds of the model. *)

\* Marked instants per minute: the resolution of the model's clock.
PointsPerMinute == 1
\* The clock runs for this many minutes after the launch instant in the runs
\* with a single session,
HorizonMinutes == 7
\* and for this many in the runs with overlapping sessions.
OverlapMinutes == 2
\* Successful start_work_monitoring calls in one run.
MaxMonitors == 2
\* Scheduling lag, in clock units: a task reads the clock at most this long
\* after its sleep ends, finishes a pass of its loop at most this long after
\* the reading, and a start call spawns at most this long after its write.
MaxLag == 0

----------------------------------------------------------------------------
(* Time of day strings.  A string is a sequence of one-character strings. *)

UnitsPerMinute == 2 * PointsPerMinute

DigitChars == <<"0", "1", "2", "3", "4", "5", "6", "7", "8", "9">>

IsDigit(c) == \E i \in 1..10 : DigitChars[i] = c

DigitVal(c) == (CHOOSE i \in 1..10 : DigitChars[i] = c) - 1

\* chrono's scan::number(s, 1, 2): the length of the longest prefix of one or
\* two digits, 0 when s does not start with a digit.
NumWidth(s) ==
    IF Len(s) >= 1 /\ IsDigit(s[1])
    THEN (IF Len(s) >= 2 /\ IsDigit(s[2]) THEN 2 ELSE 1)
    ELSE 0

NumValue(s, w) == IF w = 2 THEN 10 * DigitVal(s[1]) + DigitVal(s[2]) ELSE DigitVal(s[1])

ParseError == [ok |-> FALSE, hour |-> 0, minute |-> 0]

\* The minute field and the end of the input, after the ':'.
ParseMinute(hour, s) ==
    LET w == NumWidth(s) IN
    IF w = 0 \/ Len(s) > w THEN ParseError
    ELSE IF NumValue(s, w) > 59 THEN ParseError
    ELSE [ok |-> TRUE, hour |-> hour, minute |-> NumValue(s, w)]

\* Variant: a parser that lets the minute 60 through.
ParseFromStrAcceptsMinute60(s) ==
    LET w == NumWidth(s) IN
    IF w = 0 THEN ParseError
    ELSE LET rest == SubSeq(s, w + 1, Len(s)) IN
         IF NumValue(s, w) > 23 \/ Len(rest) < 1 \/ rest[1] # ":" THEN ParseError
         ELSE LET t == SubSeq(rest, 2, Len(rest))
                  v == NumWidth(t) IN
              IF v = 0 \/ Len(t) > v THEN ParseError
              ELSE [ok |-> TRUE, hour |-> NumValue(s, w), minute |-> NumValue(t, v)]

\* NaiveTime::parse_from_str(s, "%H:%M"): an hour of one or two digits in
\* 0..23, a ':', a minute of one or two digits in 0..59, and nothing after.
ParseFromStr(s) ==
    LET w == NumWidth(s) IN
    IF w = 0 THEN ParseError
    ELSE LET rest == SubSeq(s, w + 1, Len(s)) IN
         IF NumValue(s, w) > 23 \/ Len(rest) < 1 \/ rest[1] # ":" THEN ParseError
         ELSE ParseMinute(NumValue(s, w), SubSeq(rest, 2, Len(rest)))

\* expected_end.format("%H:%M"): two digits, ':', two digits.
TwoDigits(n) == <<DigitChars[(n \div 10) + 1], DigitChars[(n % 10) + 1]>>

----------------------------------------------------------------------------
(* Instants and durations. *)

MinutesPerDay == 24 * 60
DayUnits == MinutesPerDay * UnitsPerMinute

\* Local::now().date_naive(), as the instant of that day's midnight.
DateNaive(t) == (t \div DayUnits) * DayUnits

\* Local.from_local_datetime(&today.and_time(time)).unwrap()
AndTime(today, time) == today + (time.hour * 60 + time.minute) * UnitsPerMinute

\* Variant: a count of minutes that rounds up instead of truncating.
NumMinutesRoundsUp(d) == IF d >= 0 THEN (d + UnitsPerMinute - 1) \div UnitsPerMinute
                         ELSE -((-d) \div UnitsPerMinute)

\* chrono::Duration::num_minutes: whole minutes, truncated toward zero.
NumMinutes(d) == IF d >= 0 THEN d \div UnitsPerMinute ELSE -((-d) \div UnitsPerMinute)

\* chrono::Duration::minutes(m)
Minutes(m) == m * UnitsPerMinute

FormatHM(t) ==
    LET tod == (t % DayUnits) \div UnitsPerMinute IN
    TwoDigits(tod \div 60) \o <<":">> \o TwoDigits(tod % 60)

\* Variant: a target of seven hours.
TargetSevenHours == 7 * 60

\* let total_target_minutes = 8 * 60
total_target_minutes == 8 * 60

\* The plan start_work_monitoring computes from three parsed times on `today`.
SessionPlan(today, start1, end1, start2) ==
    LET start1_dt == AndTime(today, start1)
        end1_dt == AndTime(today, end1)
        start2_dt == AndTime(today, start2)
        period1_minutes == NumMinutes(end1_dt - start1_dt)
        remaining_from_start2 == total_target_minutes - period1_minutes
        expected_end == start2_dt + Minutes(remaining_from_start2)
    IN [expected_end |-> expected_end,
        work_status |-> [some |-> TRUE,
                         remaining_minutes |-> remaining_from_start2,
                         is_complete |-> FALSE,
                         end_time |-> FormatHM(expected_end)]]

----------------------------------------------------------------------------
(* The inputs of start_work_monitoring the model draws from. *)

HM(h1, h2, m1, m2) == <<h1, h2, ":", m1, m2>>

TimeInputs ==
    << [inicio1 |-> HM("0","8","0","0"), fim1 |-> HM("1","2","0","0"), inicio2 |-> HM("1","3","0","0")],
       [inicio1 |-> <<"8",":","0","0">>, fim1 |-> HM("1","2","0","0"), inicio2 |-> HM("1","2","5","8")],
       [inicio1 |-> HM("0","8","0","0"), fim1 |-> HM("1","7","0","0"), inicio2 |-> HM("1","3","0","0")],
       [inicio1 |-> HM("1","2","0","0"), fim1 |-> HM("0","8","0","0"), inicio2 |-> HM("1","3","0","0")],
       [inicio1 |-> HM("2","5","9","9"), fim1 |-> HM("1","2","0","0"), inicio2 |-> HM("1","3","0","0")],
       [inicio1 |-> HM("0","8","0","0"), fim1 |-> HM("1","2","6","0"), inicio2 |-> HM("1","3","0","0")],
       [inicio1 |-> HM("0","8","0","0"), fim1 |-> HM("1","2","0","0"), inicio2 |-> <<"1","3","0","0">>],
       [inicio1 |-> HM("2","4","0","0"), fim1 |-> HM("1","2","0","0"), inicio2 |-> HM("1","3","0","0")],
       [inicio1 |-> HM("0","8","0","0"), fim1 |-> HM("1","2","0","0"), inicio2 |-> HM("1","3","a","0")] >>

\* The application is launched at 16:55 of day 0 in the runs with a single
\* session,
LaunchInstant == (16 * 60 + 55) * UnitsPerMinute
MaxNow == LaunchInstant + HorizonMinutes * UnitsPerMinute

\* and at 16:58 in the runs with overlapping sessions, whose calls plan the
\* end 17:00 or the end 12:00, which has passed.
OverlapLaunch == (16 * 60 + 58) * UnitsPerMinute
OverlapMaxNow == OverlapLaunch + OverlapMinutes * UnitsPerMinute
OverlapInputs == {1, 3}

(* The shared status slot. *)

\* Arc::new(Mutex::new(None))
None == [some |-> FALSE, remaining_minutes |-> 0, is_complete |-> FALSE, end_time |-> <<>>]

Max(a, b) == IF a >= b THEN a ELSE b

\* The 3 of "remaining <= 3 && remaining > 0".
WarningMinutes == 3

\* Variant: a sleep of 30 seconds.
PollHalfMinute == PointsPerMinute

\* Duration::from_secs(60): the sleep between two passes of the loop.
PollUnits == UnitsPerMinute

IdleStarter == [pc |-> "idle", inp |-> 0, expected_end |-> 0, born |-> 0]

\* Whether clock value t is a marked instant.
IsInstant(t) == t % 2 = 0

\* The first region after the instant or region t.
After(t) == IF IsInstant(t) THEN t + 1 ELSE t

----------------------------------------------------------------------------
(* start_work_monitoring *)

\* Variant: a call that also refuses a first period that is negative or
\* longer than the target.
ParseAllWithinTarget(td) ==
    LET start1 == ParseFromStr(td.inicio1)
        end1 == ParseFromStr(td.fim1)
        start2 == ParseFromStr(td.inicio2)
        period1 == (end1.hour * 60 + end1.minute) - (start1.hour * 60 + start1.minute)
    IN [ok |-> start1.ok /\ end1.ok /\ start2.ok /\ period1 >= 0
               /\ period1 <= total_target_minutes,
        start1 |-> start1,
        end1 |-> end1,
        start2 |-> start2]

\* The three parses, each returning the call's error with `?`.
ParseAll(td) ==
    [ok |-> ParseFromStr(td.inicio1).ok /\ ParseFromStr(td.fim1).ok
            /\ ParseFromStr(td.inicio2).ok,
     start1 |-> ParseFromStr(td.inicio1),
     end1 |-> ParseFromStr(td.fim1),
     start2 |-> ParseFromStr(td.inicio2)]

Parsed == [k \in 1..Len(TimeInputs) |-> ParseAll(TimeInputs[k])]

\* A call whose parse fails returns Err before it touches the slot.
StartRejected(k) ==
    /\ starter.pc = "idle"
    /\ ~Parsed[k].ok
    /\ UNCHANGED progVars

\* Variant: a call that goes on to its spawn without storing a status.
StartCommitWithoutStore(k) ==
    /\ starter.pc = "idle"
    /\ Len(monitors) < MaxMonitors
    /\ Parsed[k].ok
    /\ LET p == Parsed[k]
           plan == SessionPlan(DateNaive(now), p.start1, p.end1, p.start2)
       IN starter' = [pc |-> "spawn", inp |-> k, expected_end |-> plan.expected_end,
                      born |-> now]
    /\ UNCHANGED <<now, state, lock, monitors>>

\* A call whose parse succeeds, up to the end of the block that locks the
\* slot and stores the new status.
StartCommit(k) ==
    /\ starter.pc = "idle"
    /\ Len(monitors) < MaxMonitors
    /\ Parsed[k].ok
    /\ lock = 0
    /\ LET p == Parsed[k]
           plan == SessionPlan(DateNaive(now), p.start1, p.end1, p.start2)
       IN /\ state' = plan.work_status
          /\ starter' = [pc |-> "spawn", inp |-> k, expected_end |-> plan.expected_end,
                         born |-> now]
    /\ UNCHANGED <<now, lock, monitors>>

\* The task as spawned: it has not read the clock yet, and can do so in any
\* region after the call.
NewMonitor(st) ==
    [end_time |-> st.expected_end, pc |-> "sleep", remaining |-> 0,
     wake |-> Max(now, After(st.born))]

\* Variant: a spawn that ends the monitors already running.
SpawnCancelsOthers(st) ==
    [i \in 1..Len(monitors) |-> [monitors[i] EXCEPT !.pc = "done"]] \o <<NewMonitor(st)>>

\* tokio::spawn(monitor_work_completion(app, state, expected_end))
Spawn(st) == Append(monitors, NewMonitor(st))

\* The rest of the call: the spawn and the return of Ok(()).
StartSpawn ==
    /\ starter.pc = "spawn"
    /\ monitors' = Spawn(starter)
    /\ starter' = IdleStarter
    /\ UNCHANGED <<now, state, lock>>

----------------------------------------------------------------------------
(* monitor_work_completion: one pass of the loop is four steps of the task: *)
(* the clock reading, the two stores under the lock, and the rest.  Between *)
(* the clock reading and the next sleep, `wake` holds the region of the     *)
(* reading.                                                                 *)

SetMonitor(i, m) == [monitors EXCEPT ![i] = m]

\* let now = Local::now(); let remaining = (end_time - now).num_minutes();
ReadClock(i) ==
    /\ i \in 1..Len(monitors)
    /\ monitors[i].pc = "sleep"
    /\ now >= monitors[i].wake
    /\ monitors' = SetMonitor(i, [monitors[i] EXCEPT
                        !.remaining = NumMinutes(monitors[i].end_time - now),
                        !.wake = now,
                        !.pc = "lock"])
    /\ UNCHANGED <<now, state, lock, starter>>

\* Variant: a write of remaining as computed, negative included.
StatusRemainingUnclamped(remaining) == remaining

\* status.remaining_minutes = remaining.max(0)
StatusRemaining(remaining) == Max(remaining, 0)

\* Variant: a status that is complete from one minute before the end.
StatusCompleteAtOne(remaining) == remaining <= 1

\* status.is_complete = remaining <= 0
StatusComplete(remaining) == remaining <= 0

\* Variant: a pass that also stores its own end as the status's end_time.
LockAndStoreRemainingAndEnd(i) ==
    /\ i \in 1..Len(monitors)
    /\ monitors[i].pc = "lock"
    /\ lock = 0
    /\ lock' = i
    /\ state' = IF state.some
                THEN [state EXCEPT !.remaining_minutes = StatusRemaining(monitors[i].remaining),
                                   !.end_time = FormatHM(monitors[i].end_time)]
                ELSE state
    /\ monitors' = SetMonitor(i, [monitors[i] EXCEPT !.pc = "store"])
    /\ UNCHANGED <<now, starter>>

\* state.lock().unwrap() and the first store, made only into a Some.
LockAndStoreRemaining(i) ==
    /\ i \in 1..Len(monitors)
    /\ monitors[i].pc = "lock"
    /\ lock = 0
    /\ lock' = i
    /\ state' = IF state.some
                THEN [state EXCEPT !.remaining_minutes = StatusRemaining(monitors[i].remaining)]
                ELSE state
    /\ monitors' = SetMonitor(i, [monitors[i] EXCEPT !.pc = "store"])
    /\ UNCHANGED <<now, starter>>

\* The second store and the end of the block, which drops the guard.
StoreCompleteAndUnlock(i) ==
    /\ i \in 1..Len(monitors)
    /\ monitors[i].pc = "store"
    /\ lock = i
    /\ lock' = 0
    /\ state' = IF state.some
                THEN [state EXCEPT !.is_complete = StatusComplete(monitors[i].remaining)]
                ELSE state
    /\ monitors' = SetMonitor(i, [monitors[i] EXCEPT !.pc = "act"])
    /\ UNCHANGED <<now, starter>>

SinkResults == {"Ok", "Err"}

\* Variant: a call whose error ends the task, as with `?`.
Propagate(result, next) == IF result = "Err" THEN "done" ELSE next

\* let _ = <call>: the call's Result is dropped, the task goes on.
Discard(result, next) == next

\* Variant: a loop without its break.
NoBreak == "sleep"

\* break: the loop, and with it the task, ends.
Break == "done"

\* Variant: a warning band without its upper end.
WarnsBelowThree(remaining) == remaining < WarningMinutes /\ remaining > 0

\* if remaining <= 3 && remaining > 0
Warns(remaining) == remaining <= WarningMinutes /\ remaining > 0

\* The rest of the pass: at remaining <= 0 the completion alerts, the
\* work_complete event and the break; otherwise the warning alerts when due,
\* and the sleep of 60 s.  sys and ovl are what show_system_notification and
\* show_overlay_notification return when they are called.
Act(i, sys, ovl) ==
    /\ i \in 1..Len(monitors)
    /\ monitors[i].pc = "act"
    /\ LET m == monitors[i] IN
       monitors' = SetMonitor(i,
            IF m.remaining <= 0
            THEN [m EXCEPT !.pc = Discard(sys, Discard(ovl, Break))]
            ELSE IF Warns(m.remaining)
            THEN [m EXCEPT !.wake = now + PollUnits,
                           !.pc = Discard(sys, Discard(ovl, "sleep"))]
            ELSE [m EXCEPT !.wake = now + PollUnits,
                           !.pc = "sleep"])
    /\ UNCHANGED <<now, state, lock, starter>>

----------------------------------------------------------------------------
(* get_work_status *)

\* Variant: a reader that does not wait for the mutex.
ReaderIgnoresLock == TRUE

\* state.lock().unwrap(): the call waits until the Mutex is free.
ReaderHasLock == lock = 0

\* The clone of the slot's content, made under the lock, is what the call
\* returns.
get_work_status ==
    /\ ReaderHasLock
    /\ lastRead' = state
    /\ UNCHANGED progVars

----------------------------------------------------------------------------
(* stop_work_monitoring *)

\* Variant: a stop that ends every monitor.
StopEndsMonitors ==
    /\ monitors' = [i \in 1..Len(monitors) |-> [monitors[i] EXCEPT !.pc = "done"]]
    /\ UNCHANGED <<now, state, lock, starter>>

\* The call prints a line and returns Ok(()).
stop_work_monitoring == UNCHANGED progVars

----------------------------------------------------------------------------
(* The clock. *)

\* Time passes, by one clock value, unless a task has used up its lag.
Advance(until) ==
    /\ now < until
    /\ \A i \in 1..Len(monitors) : monitors[i].pc # "done" => now < monitors[i].wake + MaxLag
    /\ starter.pc = "spawn" => now < starter.born + MaxLag
    /\ now' = now + 1
    /\ UNCHANGED <<state, lock, monitors, starter>>

----------------------------------------------------------------------------
(* Outputs and histories.  They record what the actions above do and are    *)
(* read by none of them.  A specification says which histories it keeps.    *)

NoWrite == [by |-> -1, remaining_minutes |-> 0, is_complete |-> FALSE]

NoLog ==
    [warned |-> <<>>, completed |-> 0, passes |-> 0, born |-> 0, sinkFailed |-> FALSE,
     stopped |-> FALSE]

\* The slot's two monitored fields as the write that ends in this step leaves them.
Written(by) == [by |-> by,
                remaining_minutes |-> state'.remaining_minutes,
                is_complete |-> state'.is_complete]

LogSpawn(keep) ==
    log' = Append(log, [NoLog EXCEPT !.born = IF keep.passes THEN starter.born ELSE 0])

LogPass(i, keep) ==
    log' = IF keep.passes THEN [log EXCEPT ![i].passes = @ + 1] ELSE log

\* The monitors that were running when stop_work_monitoring was called.
LogStop ==
    log' = [i \in 1..Len(log) |->
              IF monitors[i].pc # "done" THEN [log[i] EXCEPT !.stopped = TRUE] ELSE log[i]]

\* What the rest of a pass sends out: the completion alerts at
\* remaining <= 0, the warning alerts carrying `remaining` when due.
LogAct(i, sys, ovl, keep) ==
    LET m == monitors[i]
        failed == keep.sink /\ (sys = "Err" \/ ovl = "Err")
    IN log' = [log EXCEPT ![i] =
                IF m.remaining <= 0
                THEN [@ EXCEPT !.completed = @ + 1, !.sinkFailed = @ \/ failed]
                ELSE IF Warns(m.remaining)
                THEN [@ EXCEPT !.warned = IF keep.warned THEN Append(@, m.remaining) ELSE @,
                               !.sinkFailed = @ \/ failed]
                ELSE @]

----------------------------------------------------------------------------
(* The credential store.  A string is a sequence of code points, a byte a   *)
(* number in 0..255, a base64 text a sequence of symbols: 0..63 the         *)
(* alphabet in its order, 64 the padding '='.                               *)

\* const ENCRYPTION_KEY: &[u8; 32] = b"NoPonto2024SecureKey1234567890AB"
ENCRYPTION_KEY ==
    <<78, 111, 80, 111, 110, 116, 111, 50, 48, 50, 52, 83, 101, 99, 117, 114,
      101, 75, 101, 121, 49, 50, 51, 52, 53, 54, 55, 56, 57, 48, 65, 66>>

\* let mut nonce_bytes = [0u8; 12]
NonceLen == 12

\* The length of the tag Aes256Gcm appends to the ciphertext.
TagLen == 16

RECURSIVE SumSeq(_)
SumSeq(q) == IF q = <<>> THEN 0 ELSE q[1] + SumSeq(Tail(q))

RECURSIVE Flatten(_)
Flatten(qq) == IF qq = <<>> THEN <<>> ELSE qq[1] \o Flatten(Tail(qq))

\* str::as_bytes: the UTF-8 encoding of one code point.
Utf8Char(cp) ==
    IF cp < 128 THEN <<cp>>
    ELSE IF cp < 2048 THEN <<192 + (cp \div 64), 128 + (cp % 64)>>
    ELSE IF cp < 65536
    THEN <<224 + (cp \div 4096), 128 + ((cp \div 64) % 64), 128 + (cp % 64)>>
    ELSE <<240 + (cp \div 262144), 128 + ((cp \div 4096) % 64),
           128 + ((cp \div 64) % 64), 128 + (cp % 64)>>

AsBytes(str) == Flatten([i \in 1..Len(str) |-> Utf8Char(str[i])])

\* The bytes a UTF-8 sequence that starts with byte b takes, 0 when no
\* sequence starts with b.
Utf8Width(b) ==
    IF b < 128 THEN 1
    ELSE IF b >= 194 /\ b <= 223 THEN 2
    ELSE IF b >= 224 /\ b <= 239 THEN 3
    ELSE IF b >= 240 /\ b <= 244 THEN 4
    ELSE 0

\* The range of the second byte after the first byte b.
Utf8SecondOk(b, c) ==
    IF b = 224 THEN c >= 160 /\ c <= 191
    ELSE IF b = 237 THEN c >= 128 /\ c <= 159
    ELSE IF b = 240 THEN c >= 144 /\ c <= 191
    ELSE IF b = 244 THEN c >= 128 /\ c <= 143
    ELSE c >= 128 /\ c <= 191

IsCont(c) == c >= 128 /\ c <= 191

Utf8Error == [ok |-> FALSE, value |-> <<>>]

\* String::from_utf8: the code points of a valid UTF-8 text, or an error.
RECURSIVE FromUtf8(_)
FromUtf8(b) ==
    IF b = <<>> THEN [ok |-> TRUE, value |-> <<>>]
    ELSE LET w == Utf8Width(b[1]) IN
         IF w = 0 \/ Len(b) < w THEN Utf8Error
         ELSE IF w >= 2 /\ ~Utf8SecondOk(b[1], b[2]) THEN Utf8Error
         ELSE IF w >= 3 /\ ~IsCont(b[3]) THEN Utf8Error
         ELSE IF w = 4 /\ ~IsCont(b[4]) THEN Utf8Error
         ELSE LET cp == IF w = 1 THEN b[1]
                        ELSE IF w = 2 THEN (b[1] - 192) * 64 + (b[2] - 128)
                        ELSE IF w = 3
                        THEN (b[1] - 224) * 4096 + (b[2] - 128) * 64 + (b[3] - 128)
                        ELSE (b[1] - 240) * 262144 + (b[2] - 128) * 4096
                             + (b[3] - 128) * 64 + (b[4] - 128)
                  rest == FromUtf8(SubSeq(b, w + 1, Len(b)))
              IN IF rest.ok THEN [ok |-> TRUE, value |-> <<cp>> \o rest.value]
                 ELSE Utf8Error

\* general_purpose::STANDARD.encode: three bytes give four symbols, the last
\* group is padded with '='.
B64Pad == 64

RECURSIVE B64Encode(_)
B64Encode(b) ==
    IF b = <<>> THEN <<>>
    ELSE IF Len(b) = 1
    THEN <<(b[1] \div 4), (b[1] % 4) * 16, B64Pad, B64Pad>>
    ELSE IF Len(b) = 2
    THEN <<(b[1] \div 4), (b[1] % 4) * 16 + (b[2] \div 16), (b[2] % 16) * 4, B64Pad>>
    ELSE <<(b[1] \div 4), (b[1] % 4) * 16 + (b[2] \div 16),
           (b[2] % 16) * 4 + (b[3] \div 64), (b[3] % 64)>>
         \o B64Encode(SubSeq(b, 4, Len(b)))

B64Error == [ok |-> FALSE, value |-> <<>>]

IsSym(c) == c >= 0 /\ c <= 63

\* general_purpose::STANDARD.decode: groups of four symbols, padding only in
\* the last group and required there, no bits set beyond the last byte.
RECURSIVE B64Decode(_)
B64Decode(t) ==
    IF t = <<>> THEN [ok |-> TRUE, value |-> <<>>]
    ELSE IF Len(t) < 4 \/ ~IsSym(t[1]) \/ ~IsSym(t[2]) THEN B64Error
    ELSE IF t[3] = B64Pad
    THEN (IF Len(t) = 4 /\ t[4] = B64Pad /\ (t[2] % 16) = 0
          THEN [ok |-> TRUE, value |-> <<t[1] * 4 + (t[2] \div 16)>>]
          ELSE B64Error)
    ELSE IF ~IsSym(t[3]) THEN B64Error
    ELSE IF t[4] = B64Pad
    THEN (IF Len(t) = 4 /\ (t[3] % 4) = 0
          THEN [ok |-> TRUE, value |-> <<t[1] * 4 + (t[2] \div 16),
                                         (t[2] % 16) * 16 + (t[3] \div 4)>>]
          ELSE B64Error)
    ELSE IF ~IsSym(t[4]) THEN B64Error
    ELSE LET rest == B64Decode(SubSeq(t, 5, Len(t))) IN
         IF rest.ok
         THEN [ok |-> TRUE, value |-> <<t[1] * 4 + (t[2] \div 16),
                                        (t[2] % 16) * 16 + (t[3] \div 4),
                                        (t[3] % 4) * 64 + t[4]>> \o rest.value]
         ELSE B64Error

\* Aes256Gcm under ENCRYPTION_KEY is not modelled bit by bit.  A stream
\* cipher keyed by the key and the nonce stands for its encryption, and a
\* keyed checksum of the nonce and the ciphertext for its tag.
KeyStream(nonce, i) ==
    (ENCRYPTION_KEY[((i - 1) % 32) + 1] + nonce[((i - 1) % NonceLen) + 1] + i) % 256

AeadTag(nonce, ct) ==
    LET sum == 3 * SumSeq(nonce) + 5 * SumSeq(ct) IN
    [j \in 1..TagLen |-> (ENCRYPTION_KEY[j] + sum + j * (Len(ct) + 1)) % 256]

\* cipher.encrypt(nonce, data.as_bytes()): the ciphertext with its tag.
AeadEncrypt(nonce, pt) ==
    LET ct == [i \in 1..Len(pt) |-> (pt[i] + KeyStream(nonce, i)) % 256]
    IN ct \o AeadTag(nonce, ct)

\* Variant: a decryption that does not compare the tag.
AeadDecryptUnchecked(nonce, sealed) ==
    IF Len(sealed) < TagLen THEN [ok |-> FALSE, value |-> <<>>]
    ELSE LET ct == SubSeq(sealed, 1, Len(sealed) - TagLen)
         IN [ok |-> TRUE,
             value |-> [i \in 1..Len(ct) |-> (ct[i] - KeyStream(nonce, i)) % 256]]

\* cipher.decrypt(nonce, ciphertext): the plaintext, or an error when the
\* input is shorter than a tag or its tag does not match.
AeadDecrypt(nonce, sealed) ==
    IF Len(sealed) < TagLen THEN [ok |-> FALSE, value |-> <<>>]
    ELSE LET ct == SubSeq(sealed, 1, Len(sealed) - TagLen)
             tag == SubSeq(sealed, Len(sealed) - TagLen + 1, Len(sealed))
         IN IF tag # AeadTag(nonce, ct) THEN [ok |-> FALSE, value |-> <<>>]
            ELSE [ok |-> TRUE,
                  value |-> [i \in 1..Len(ct) |-> (ct[i] - KeyStream(nonce, i)) % 256]]

\* Variant: an encryption that leaves the nonce out of its result.
encrypt_data_without_nonce(data, nonce_bytes) ==
    [ok |-> TRUE, value |-> B64Encode(AeadEncrypt(nonce_bytes, AsBytes(data)))]

\* encrypt_data, with the 12 bytes OsRng gives: base64 of nonce || ciphertext.
encrypt_data(data, nonce_bytes) ==
    LET ciphertext == AeadEncrypt(nonce_bytes, AsBytes(data))
        result == nonce_bytes \o ciphertext
    IN [ok |-> TRUE, value |-> B64Encode(result)]

Err(msg) == [ok |-> FALSE, value |-> msg]
Ok(v) == [ok |-> TRUE, value |-> v]

decrypt_data(encrypted_data) ==
    LET data == B64Decode(encrypted_data) IN
    IF ~data.ok THEN Err("Base64 decode failed")
    ELSE IF Len(data.value) < NonceLen THEN Err("Invalid encrypted data")
    ELSE LET nonce_bytes == SubSeq(data.value, 1, NonceLen)
             ciphertext == SubSeq(data.value, NonceLen + 1, Len(data.value))
             plaintext == AeadDecrypt(nonce_bytes, ciphertext)
         IN IF ~plaintext.ok THEN Err("Decryption failed")
            ELSE LET text == FromUtf8(plaintext.value) IN
                 IF text.ok THEN Ok(text.value) ELSE Err("UTF-8 conversion failed")

\* The configurations and the nonces the model draws from: the texts of at
\* most MaxConfigLen code points among 'a', U+00E9 and U+20AC.
MaxConfigLen == 2

CodePoints == {97, 233, 8364}

Configs == UNION {[1..n -> CodePoints] : n \in 0..MaxConfigLen}

Nonces == {[i \in 1..NonceLen |-> (17 * i) % 256], [i \in 1..NonceLen |-> (250 + i) % 256]}

\* encrypt_data on the inputs the model draws from, computed once (@@ makes
\* TLC tabulate the function).
Encrypted ==
    [p \in Configs \X Nonces |-> encrypt_data(p[1], p[2])] @@ <<>>

\* The store's entry "pontomais_config": absent, or a JSON string.
NoEntry == [present |-> FALSE, value |-> <<>>]
Entry(v) == [present |-> TRUE, value |-> v]

\* Nothing was loaded since the last save.
NoLoad == Err("none")

\* Variant: the save reports success whatever store.save() returned.
SaveOutcomeAlwaysOk(persisted) == "Ok"

\* The save's result follows store.save()'s.
SaveOutcome(persisted) == IF persisted THEN "Ok" ELSE "Err"

\* save_pontomais_config: encrypt, store.set, store.save.  persisted: whether
\* store.save() succeeds.
save_pontomais_config(config, nonce_bytes, persisted) ==
    LET encrypted_config == Encrypted[<<config, nonce_bytes>>] IN
    /\ store' = Entry(encrypted_config.value)
    /\ disk' = IF persisted THEN store' ELSE disk
    /\ saveResult' = SaveOutcome(persisted)
    /\ lastSaved' = [plain |-> config, ok |-> persisted, made |-> TRUE]
    /\ loadResult' = NoLoad
    /\ entryOrigin' = "saved"

\* decrypt_data of every text a save can have stored.
Decrypted ==
    [t \in {Encrypted[p].value : p \in Configs \X Nonces} |-> decrypt_data(t)] @@ <<>>

\* Variant: a missing entry is reported as an error.
NoConfigIsAnError == Err("No configuration found")

\* What a load returns when the store has no entry: Ok("").
NoConfig == Ok(<<>>)

\* What a load returns from an entry: the decrypted text, "" when there is
\* no entry.
Loaded(entry) ==
    IF ~entry.present THEN NoConfig
    ELSE IF entry.value \in DOMAIN Decrypted THEN Decrypted[entry.value]
    ELSE decrypt_data(entry.value)

\* get_pontomais_config: store.get on the in-memory store, and the decryption.
get_pontomais_config ==
    /\ loadResult' = Loaded(store)
    /\ UNCHANGED <<store, disk, saveResult, lastSaved, entryOrigin>>

\* The file noponto.dat is changed outside the program and read again: one
\* symbol of a saved entry is replaced,
NotBase64 == B64Pad + 1

\* by the next symbol of the alphabet, the one 32 places further, the
\* padding, or a character outside the alphabet,
SymbolChanges == {"next", "far", "pad", "outside"}

Changed(c, how) ==
    IF how = "pad" THEN B64Pad
    ELSE IF how = "outside" THEN NotBase64
    ELSE IF how = "next" THEN (c + 1) % 64
    ELSE (c + 32) % 64

AlterSymbol(pos, how) ==
    /\ entryOrigin = "saved"
    /\ pos \in 1..Len(store.value)
    /\ Changed(store.value[pos], how) # store.value[pos]
    /\ store' = Entry([store.value EXCEPT ![pos] = Changed(@, how)])
    /\ disk' = store'
    /\ entryOrigin' = "altered"
    /\ loadResult' = NoLoad
    /\ UNCHANGED <<saveResult, lastSaved>>

\* or one byte of the bytes it encodes is changed,
ByteChanges == {1, 128}

AlterByte(pos, delta) ==
    LET data == B64Decode(store.value).value IN
    /\ entryOrigin = "saved"
    /\ pos \in 1..Len(data)
    /\ store' = Entry(B64Encode([data EXCEPT ![pos] = (@ + delta) % 256]))
    /\ disk' = store'
    /\ entryOrigin' = "altered"
    /\ loadResult' = NoLoad
    /\ UNCHANGED <<saveResult, lastSaved>>

\* or the entry is a text no save has produced: the empty text, "TWFu" (3
\* bytes), 11 bytes, 12 bytes and no more, a nonce with 16 bytes that are
\* not its tag, a text of 3 symbols, one with a character outside the
\* alphabet, one with padding in the middle.
ForeignEntries ==
    { <<>>,
      <<19, 22, 5, 46>>,
      B64Encode([i \in 1..(NonceLen - 1) |-> i]),
      B64Encode([i \in 1..NonceLen |-> i]),
      B64Encode([i \in 1..(NonceLen + TagLen) |-> i]),
      <<19, 22, 5>>,
      <<19, NotBase64, 5, 46>>,
      <<19, 22, B64Pad, 46>> }

StoreForeign(text) ==
    /\ store' = Entry(text)
    /\ disk' = store'
    /\ entryOrigin' = "foreign"
    /\ loadResult' = NoLoad
    /\ UNCHANGED <<saveResult, lastSaved>>

----------------------------------------------------------------------------
(* fetch_pontomais_hours: the day's time cards from the PontoMais service.   *)

\* The configuration text get_pontomais_config returns, as far as the fetch
\* reads it: empty, not JSON, a JSON array, or a JSON object in which each of
\* the five fields is a string, another kind of value, or absent.
FieldNames == <<"employeeId", "accessToken", "client", "uid", "uuid">>

Fields == 1..Len(FieldNames)

NoFields == [f \in Fields |-> "absent"]

EmptyText == [kind |-> "empty", fields |-> NoFields]

ConfigObjects ==
    {[kind |-> "object", fields |-> fs] : fs \in [Fields -> {"string", "absent"}]}
    \cup {[kind |-> "object", fields |-> [f \in Fields |-> IF f = g THEN "number" ELSE "string"]] :
            g \in Fields}

ConfigTexts ==
    {EmptyText, [kind |-> "invalid", fields |-> NoFields], [kind |-> "array", fields |-> NoFields]}
    \cup ConfigObjects

\* What the call of get_pontomais_config gives the fetch: an error or a text.
LoadOutcomes ==
    {[ok |-> FALSE, error |-> e, text |-> EmptyText] :
        e \in {"Failed to get store", "Decryption failed"}}
    \cup {[ok |-> TRUE, error |-> "", text |-> t] : t \in ConfigTexts}

NotLoaded == [ok |-> FALSE, error |-> "none", text |-> EmptyText]

\* config_data[name].as_str(): a string only from an object's string field.
as_str(text, f) == text.kind = "object" /\ text.fields[f] = "string"

MissingMessages ==
    <<"Missing employeeId", "Missing accessToken", "Missing client", "Missing uid",
      "Missing uuid">>

Sent == ""

\* Why the fetch returns before any request, or Sent when it sends one.
Refusal(loaded) ==
    IF ~loaded.ok THEN loaded.error
    ELSE IF loaded.text.kind = "empty" THEN "Configuracoes do PontoMais nao encontradas"
    ELSE IF loaded.text.kind = "invalid" THEN "Invalid config JSON"
    ELSE IF \E f \in Fields : ~as_str(loaded.text, f)
         THEN MissingMessages[CHOOSE f \in Fields :
                  ~as_str(loaded.text, f) /\ \A g \in 1..(f - 1) : as_str(loaded.text, g)]
    ELSE Sent

\* The response body: not JSON, or a JSON object whose work_days, their
\* time_cards and their time may each be missing.
MaxDays == 2

MaxCards == 2

Times == {"08:00", "12:00"}

Card(t) == [has_time |-> TRUE, time |-> t]

CardWithoutTime == [has_time |-> FALSE, time |-> ""]

Day(cards) == [has_cards |-> TRUE, time_cards |-> cards]

DayWithoutCards == [has_cards |-> FALSE, time_cards |-> <<>>]

Body(days) == [json |-> TRUE, has_days |-> TRUE, work_days |-> days]

NotJson == [json |-> FALSE, has_days |-> FALSE, work_days |-> <<>>]

BodyWithoutDays == [json |-> TRUE, has_days |-> FALSE, work_days |-> <<>>]

SeqsUpTo(n, S) == UNION {[1..m -> S] : m \in 0..n}

WellFormedDays == {Day(cards) : cards \in SeqsUpTo(MaxCards, {Card(t) : t \in Times})}

WellFormedBodies == {Body(days) : days \in SeqsUpTo(MaxDays, WellFormedDays)}

MalformedBodies ==
    { NotJson,
      BodyWithoutDays,
      Body(<<DayWithoutCards>>),
      Body(<<Day(<<Card("08:00"), CardWithoutTime>>)>>),
      Body(<<Day(<<Card("08:00")>>), DayWithoutCards>>),
      Body(<<Day(<<>>), Day(<<CardWithoutTime>>)>>) }

Bodies == WellFormedBodies \cup MalformedBodies

\* serde_json::from_str::<TimeCardResponse>: every work-day and every time
\* card of the body must have its field.
Deserializes(body) ==
    /\ body.json
    /\ body.has_days
    /\ \A d \in 1..Len(body.work_days) :
          /\ body.work_days[d].has_cards
          /\ \A c \in 1..Len(body.work_days[d].time_cards) :
                body.work_days[d].time_cards[c].has_time

\* The status codes the service answers with.
Statuses == {200, 204, 304, 401, 500}

\* Variant: every status below 400 counts as a success.
is_success_below_400(status) == status < 400

\* StatusCode::is_success: 200 to 299.
is_success(status) == 200 <= status /\ status <= 299

\* The results of a fetch.
NoFetch == [ok |-> FALSE, error |-> "none", status |-> 0, body |-> NotJson, times |-> <<>>]

FetchErr(msg) == [ok |-> FALSE, error |-> msg, status |-> 0, body |-> NotJson, times |-> <<>>]

StatusErr(status, body) ==
    [ok |-> FALSE, error |-> "API request failed with status", status |-> status,
     body |-> body, times |-> <<>>]

FetchOk(times) == [ok |-> TRUE, error |-> "", status |-> 0, body |-> NotJson, times |-> times]

NoResponse == [status |-> 0, read |-> FALSE, body |-> NotJson]

\* The time of every card of a work-day, in the cards' order.
TimesOfDay(work_day) ==
    [c \in 1..Len(work_day.time_cards) |-> work_day.time_cards[c].time]

\* Variant: the times of the first two work-days.
TimesOfTwoDays(days) ==
    IF days = <<>> THEN <<>>
    ELSE TimesOfDay(days[1]) \o (IF Len(days) > 1 THEN TimesOfDay(days[2]) ELSE <<>>)

\* The times of the first work-day, if there is one.
TimesOfFirstDay(days) == IF days = <<>> THEN <<>> ELSE TimesOfDay(days[1])

\* The fetch up to its request: it loads the configuration, reads the five
\* fields and sends the request, or returns an error.
FetchBegin(loaded) ==
    /\ fetchPc = "idle"
    /\ loadedConfig' = loaded
    /\ response' = NoResponse
    /\ IF Refusal(loaded) = Sent
       THEN /\ requests' = 1
            /\ fetchPc' = "awaiting"
            /\ fetchResult' = NoFetch
       ELSE /\ requests' = 0
            /\ fetchPc' = "idle"
            /\ fetchResult' = FetchErr(Refusal(loaded))

\* Variant: a failed request is sent again.
SendFailsAndRetries ==
    /\ fetchPc = "awaiting"
    /\ requests < 3
    /\ requests' = requests + 1
    /\ UNCHANGED <<loadedConfig, fetchPc, response, fetchResult>>

\* send() fails: no connection, or no response head.
SendFails ==
    /\ fetchPc = "awaiting"
    /\ fetchPc' = "idle"
    /\ fetchResult' = FetchErr("Request failed")
    /\ UNCHANGED <<loadedConfig, requests, response>>

\* send() completes with the head of the response.
ReceiveHead(status) ==
    /\ fetchPc = "awaiting"
    /\ fetchPc' = "reading"
    /\ response' = [response EXCEPT !.status = status]
    /\ UNCHANGED <<loadedConfig, requests, fetchResult>>

\* text() fails: the connection breaks inside the body.
BodyFails ==
    /\ fetchPc = "reading"
    /\ fetchPc' = "idle"
    /\ fetchResult' = FetchErr("Failed to read response")
    /\ UNCHANGED <<loadedConfig, requests, response>>

\* text() completes: the status check, the parse and the extraction.
ReceiveBody(response_text) ==
    /\ fetchPc = "reading"
    /\ fetchPc' = "idle"
    /\ response' = [response EXCEPT !.read = TRUE, !.body = response_text]
    /\ fetchResult' =
          IF ~is_success(response.status) THEN StatusErr(response.status, response_text)
          ELSE IF ~Deserializes(response_text) THEN FetchErr("Failed to parse JSON response")
          ELSE FetchOk(TimesOfFirstDay(response_text.work_days))
    /\ UNCHANGED <<loadedConfig, requests>>

----------------------------------------------------------------------------

NoSave == [plain |-> <<>>, ok |-> FALSE, made |-> FALSE]

InitAt(launch) ==
    /\ now = launch
    /\ state = None
    /\ lock = 0
    /\ monitors = <<>>
    /\ starter = IdleStarter
    /\ startResult = "none"
    /\ lastRead = None
    /\ lastWrite = NoWrite
    /\ log = <<>>
    /\ store = NoEntry
    /\ disk = NoEntry
    /\ saveResult = "none"
    /\ loadResult = NoLoad
    /\ lastSaved = NoSave
    /\ entryOrigin = "none"
    /\ loadedConfig = NotLoaded
    /\ fetchPc = "idle"
    /\ requests = 0
    /\ response = NoResponse
    /\ fetchResult = NoFetch

Init == InitAt(LaunchInstant)

InitOverlap == InitAt(OverlapLaunch)

\* The monitor's steps with the histories `keep` names.
StartRejectedStep(k) ==
    StartRejected(k) /\ startResult' = "Err" /\ UNCHANGED <<lastRead, lastWrite, log>>

StartCommitStep(k) ==
    StartCommit(k) /\ lastWrite' = Written(0) /\ UNCHANGED <<startResult, lastRead, log>>

StartSpawnStep(keep) ==
    StartSpawn /\ startResult' = "Ok" /\ LogSpawn(keep) /\ UNCHANGED <<lastRead, lastWrite>>

ReadClockStep(i) == ReadClock(i) /\ UNCHANGED obsVars

LockStep(i) == LockAndStoreRemaining(i) /\ UNCHANGED obsVars

StoreStep(i, keep) ==
    /\ StoreCompleteAndUnlock(i)
    /\ lastWrite' = IF state.some THEN Written(i) ELSE lastWrite
    /\ LogPass(i, keep)
    /\ UNCHANGED <<startResult, lastRead>>

ActStep(i, sys, ovl, keep) ==
    Act(i, sys, ovl) /\ LogAct(i, sys, ovl, keep) /\ UNCHANGED <<startResult, lastRead, lastWrite>>

ReadStep == get_work_status /\ UNCHANGED <<startResult, lastWrite, log>>

StopStep == stop_work_monitoring /\ LogStop /\ UNCHANGED <<startResult, lastRead, lastWrite>>

AdvanceStep(until) == Advance(until) /\ UNCHANGED obsVars

\* Spec: overlapping sessions and status queries.
KeepNone == [warned |-> FALSE, passes |-> FALSE, sink |-> FALSE]

Next ==
    \/ \E k \in OverlapInputs : StartCommitStep(k) /\ UNCHANGED <<vaultVars, fetchVars>>
    \/ StartSpawnStep(KeepNone) /\ UNCHANGED <<vaultVars, fetchVars>>
    \/ \E i \in 1..MaxMonitors : ReadClockStep(i) /\ UNCHANGED <<vaultVars, fetchVars>>
    \/ \E i \in 1..MaxMonitors : LockStep(i) /\ UNCHANGED <<vaultVars, fetchVars>>
    \/ \E i \in 1..MaxMonitors : StoreStep(i, KeepNone) /\ UNCHANGED <<vaultVars, fetchVars>>
    \/ \E i \in 1..MaxMonitors, sys \in SinkResults, ovl \in SinkResults :
          ActStep(i, sys, ovl, KeepNone) /\ UNCHANGED <<vaultVars, fetchVars>>
    \/ ReadStep /\ UNCHANGED <<vaultVars, fetchVars>>
    \/ AdvanceStep(OverlapMaxNow) /\ UNCHANGED <<vaultVars, fetchVars>>

Spec == InitOverlap /\ [][Next]_vars

\* SpecSingle: the runs with a single session, with every history.
KeepAll == [warned |-> TRUE, passes |-> TRUE, sink |-> TRUE]

NextSingle ==
    \/ \E k \in 1..Len(TimeInputs) : StartRejectedStep(k) /\ UNCHANGED <<vaultVars, fetchVars>>
    \/ \E k \in 1..Len(TimeInputs) :
          Len(monitors) = 0 /\ StartCommitStep(k) /\ UNCHANGED <<vaultVars, fetchVars>>
    \/ StartSpawnStep(KeepAll) /\ UNCHANGED <<vaultVars, fetchVars>>
    \/ \E i \in 1..MaxMonitors : ReadClockStep(i) /\ UNCHANGED <<vaultVars, fetchVars>>
    \/ \E i \in 1..MaxMonitors : LockStep(i) /\ UNCHANGED <<vaultVars, fetchVars>>
    \/ \E i \in 1..MaxMonitors : StoreStep(i, KeepAll) /\ UNCHANGED <<vaultVars, fetchVars>>
    \/ \E i \in 1..MaxMonitors, sys \in SinkResults, ovl \in SinkResults :
          ActStep(i, sys, ovl, KeepAll) /\ UNCHANGED <<vaultVars, fetchVars>>
    \/ ReadStep /\ UNCHANGED <<vaultVars, fetchVars>>
    \/ AdvanceStep(MaxNow) /\ UNCHANGED <<vaultVars, fetchVars>>

SpecSingle == Init /\ [][NextSingle]_vars

\* SpecStop: a single session and calls of stop_work_monitoring.
NextStop ==
    \/ \E k \in 1..Len(TimeInputs) :
          Len(monitors) = 0 /\ StartCommitStep(k) /\ UNCHANGED <<vaultVars, fetchVars>>
    \/ StartSpawnStep(KeepNone) /\ UNCHANGED <<vaultVars, fetchVars>>
    \/ \E i \in 1..MaxMonitors : ReadClockStep(i) /\ UNCHANGED <<vaultVars, fetchVars>>
    \/ \E i \in 1..MaxMonitors : LockStep(i) /\ UNCHANGED <<vaultVars, fetchVars>>
    \/ \E i \in 1..MaxMonitors : StoreStep(i, KeepNone) /\ UNCHANGED <<vaultVars, fetchVars>>
    \/ \E i \in 1..MaxMonitors, sys \in SinkResults, ovl \in SinkResults :
          ActStep(i, sys, ovl, KeepNone) /\ UNCHANGED <<vaultVars, fetchVars>>
    \/ StopStep /\ UNCHANGED <<vaultVars, fetchVars>>
    \/ AdvanceStep(MaxNow) /\ UNCHANGED <<vaultVars, fetchVars>>

SpecStop == Init /\ [][NextStop]_vars

\* SpecVault: the credential store.
NextVault ==
    \/ \E config \in Configs, nonce_bytes \in Nonces, persisted \in BOOLEAN :
          save_pontomais_config(config, nonce_bytes, persisted)
          /\ UNCHANGED <<progVars, obsVars, fetchVars>>
    \/ get_pontomais_config /\ UNCHANGED <<progVars, obsVars, fetchVars>>

SpecVault == Init /\ [][NextVault]_vars

\* SpecTamper: the credential store with an entry changed outside the program.
MaxEntryLen == 4 * ((NonceLen + 3 * MaxConfigLen + TagLen + 2) \div 3)

NextTamper ==
    \/ \E config \in Configs, nonce_bytes \in Nonces :
          save_pontomais_config(config, nonce_bytes, TRUE)
          /\ UNCHANGED <<progVars, obsVars, fetchVars>>
    \/ \E pos \in 1..MaxEntryLen, how \in SymbolChanges :
          AlterSymbol(pos, how) /\ UNCHANGED <<progVars, obsVars, fetchVars>>
    \/ \E pos \in 1..MaxEntryLen, delta \in ByteChanges :
          AlterByte(pos, delta) /\ UNCHANGED <<progVars, obsVars, fetchVars>>
    \/ \E text \in ForeignEntries : StoreForeign(text) /\ UNCHANGED <<progVars, obsVars, fetchVars>>
    \/ get_pontomais_config /\ UNCHANGED <<progVars, obsVars, fetchVars>>

SpecTamper == Init /\ [][NextTamper]_vars

\* SpecFetch: the fetch and the service.  ClientNext is what the program does
\* by itself, ServiceNext what the network and the service do.
ClientNext == \E loaded \in LoadOutcomes : FetchBegin(loaded)

ServiceNext ==
    \/ SendFails
    \/ \E status \in Statuses : ReceiveHead(status)
    \/ BodyFails
    \/ \E response_text \in Bodies : ReceiveBody(response_text)

NextFetch ==
    \/ ClientNext /\ UNCHANGED <<progVars, obsVars, vaultVars>>
    \/ ServiceNext /\ UNCHANGED <<progVars, obsVars, vaultVars>>

SpecFetch == Init /\ [][NextFetch]_vars

----------------------------------------------------------------------------
(* What the claims say, stated without the program's own operators.         *)

\* The texts of hour h and minute m: each field with two digits, or with one
\* when it is below 10.
FieldTexts(n) ==
    {<<DigitChars[(n \div 10) + 1], DigitChars[(n % 10) + 1]>>}
    \cup (IF n < 10 THEN {<<DigitChars[n + 1]>>} ELSE {})

TimeTexts(h, m) == {hh \o <<":">> \o mm : hh \in FieldTexts(h), mm \in FieldTexts(m)}

\* s is a 24-hour time of day.
IsTimeOfDay(s) == \E h \in 0..23, m \in 0..59 : s \in TimeTexts(h, m)

\* The minute of the day a time of day names.
MinuteOfDay(s) == CHOOSE v \in 0..(24 * 60 - 1) : s \in TimeTexts(v \div 60, v % 60)

ValidInput ==
    [k \in 1..Len(TimeInputs) |->
        /\ IsTimeOfDay(TimeInputs[k].inicio1)
        /\ IsTimeOfDay(TimeInputs[k].fim1)
        /\ IsTimeOfDay(TimeInputs[k].inicio2)] @@ <<>>

\* start2 + (480 - (end1 - start1)), in minutes of the day of the call.
ClaimedEndMinute ==
    [k \in 1..Len(TimeInputs) |->
        IF ValidInput[k]
        THEN MinuteOfDay(TimeInputs[k].inicio2)
             + (480 - (MinuteOfDay(TimeInputs[k].fim1) - MinuteOfDay(TimeInputs[k].inicio1)))
        ELSE 0] @@ <<>>

\* 480 - (end1 - start1), in minutes.
ClaimedRemaining ==
    [k \in 1..Len(TimeInputs) |->
        IF ValidInput[k]
        THEN 480 - (MinuteOfDay(TimeInputs[k].fim1) - MinuteOfDay(TimeInputs[k].inicio1))
        ELSE 0] @@ <<>>

\* The end instant as HH:MM, two digits each.
ClaimedEndText ==
    [k \in 1..Len(TimeInputs) |->
        LET m == ClaimedEndMinute[k] % (24 * 60) IN
        << DigitChars[((m \div 60) \div 10) + 1], DigitChars[((m \div 60) % 10) + 1], ":",
           DigitChars[((m % 60) \div 10) + 1], DigitChars[((m % 60) % 10) + 1] >>] @@ <<>>

\* The whole minutes in a duration of d clock values, toward zero.
WholeMinutes(d) ==
    LET a == IF d >= 0 THEN d ELSE -d
        near == a \div UnitsPerMinute
        q == CHOOSE n \in (near - 1)..(near + 1) :
                n * UnitsPerMinute <= a /\ a < (n + 1) * UnitsPerMinute
    IN IF d >= 0 THEN q ELSE -q

\* The remaining minutes monitor i computed from its last clock reading.
RemainingAtReading(i) == WholeMinutes(monitors[i].end_time - monitors[i].wake)

----------------------------------------------------------------------------
(* The claims. *)

\* C1: a successful start leaves every earlier monitor as it was, running
\* ones running; each monitor's pass writes its own remaining_minutes and
\* is_complete into the one slot; a monitor ends only at its own completion,
\* having fired its own completion alert.
C1_OverlappingMonitors ==
    /\ [][ /\ ((\E k \in OverlapInputs : StartCommitStep(k)) \/ StartSpawnStep(KeepNone))
              => \A i \in 1..Len(monitors) : monitors'[i] = monitors[i] /\ log'[i] = log[i]
           /\ \A i \in 1..Len(monitors) :
                StoreStep(i, KeepNone)
                => /\ lastWrite'.by = i
                   /\ state'.remaining_minutes = IF RemainingAtReading(i) > 0
                                                 THEN RemainingAtReading(i) ELSE 0
                   /\ state'.is_complete = (RemainingAtReading(i) <= 0) ]_vars
    /\ [](\A i \in 1..Len(monitors) :
            monitors[i].pc = "done"
            <=> (log[i].completed = 1 /\ RemainingAtReading(i) <= 0))

\* Both monitors of two overlapping sessions have completed, and the earlier
\* one made the last write of the slot.
C1_Witness ==
    /\ Len(monitors) = 2
    /\ monitors[1].pc = "done" /\ monitors[2].pc = "done"
    /\ log[1].completed = 1 /\ log[2].completed = 1
    /\ lastWrite.by = 1

\* C2: a single session started exactly N >= 1 minutes before its end
\* instant: once its monitor has made N passes, the slot has is_complete and
\* remaining_minutes 0.
C2_CompleteAfterNTicks ==
    (/\ Len(monitors) = 1
     /\ IsInstant(log[1].born)
     /\ monitors[1].end_time > log[1].born
     /\ (monitors[1].end_time - log[1].born) % UnitsPerMinute = 0
     /\ log[1].passes * UnitsPerMinute >= monitors[1].end_time - log[1].born)
    => (state.is_complete /\ state.remaining_minutes = 0)

\* The case of the specification: the end instant 5 minutes after the call,
\* 5 passes made.
C2_Witness ==
    /\ Len(monitors) = 1
    /\ IsInstant(log[1].born)
    /\ monitors[1].end_time - log[1].born = 5 * UnitsPerMinute
    /\ log[1].passes = 5
    /\ state.is_complete /\ state.remaining_minutes = 0

\* C3: a monitor fires its completion alert on every pass that finds
\* remaining <= 0 and on no other, ends with that pass, and has fired it
\* exactly once when it has ended; an ended monitor changes nothing any more:
\* not its own record, not its alerts, and no write of the slot is its.
C3_CompletesOnceAndEnds ==
    /\ [][\A i \in 1..Len(monitors) :
            /\ (\E sys \in SinkResults, ovl \in SinkResults : ActStep(i, sys, ovl, KeepAll))
               => IF RemainingAtReading(i) <= 0
                  THEN log'[i].completed = log[i].completed + 1 /\ monitors'[i].pc = "done"
                  ELSE log'[i].completed = log[i].completed /\ monitors'[i].pc # "done"
            /\ monitors[i].pc = "done"
               => /\ monitors'[i] = monitors[i]
                  /\ log'[i] = log[i]
                  /\ (lastWrite' # lastWrite => lastWrite'.by # i) ]_vars
    /\ [](\A i \in 1..Len(monitors) :
            /\ log[i].completed <= 1
            /\ log[i].completed = 1 <=> monitors[i].pc = "done")

\* A monitor has completed, once, and time has passed since.
C3_Witness ==
    \E i \in 1..Len(monitors) :
        /\ monitors[i].pc = "done"
        /\ log[i].completed = 1
        /\ now > monitors[i].wake + UnitsPerMinute

\* C4: the rest of a pass fires one warning carrying remaining when
\* 0 < remaining <= 3, and none otherwise.
C4_WarningEveryTickInBand ==
    [][\A i \in 1..Len(monitors) :
        (\E sys \in SinkResults, ovl \in SinkResults : ActStep(i, sys, ovl, KeepAll))
        => LET r == RemainingAtReading(i) IN
           IF 0 < r /\ r <= 3
           THEN log'[i].warned = Append(log[i].warned, r)
           ELSE log'[i].warned = log[i].warned ]_vars

\* A monitor has warned on three passes, at 3, 2 and 1 minutes.
C4_Witness ==
    \E i \in 1..Len(monitors) : log[i].warned = <<3, 2, 1>>

\* C5: the write a pass completes leaves remaining_minutes = max(remaining, 0)
\* and is_complete = (remaining <= 0), remaining being the whole minutes from
\* the pass's clock reading to the end instant, toward zero; a status query
\* made when a monitor's write is the last one returns these two values.
C5_StatusWrite ==
    [][ /\ \A i \in 1..Len(monitors) :
             StoreStep(i, KeepAll)
             => LET r == RemainingAtReading(i) IN
                /\ state'.remaining_minutes = (IF r > 0 THEN r ELSE 0)
                /\ state'.is_complete = (r <= 0)
        /\ (ReadStep /\ lastWrite.by > 0)
           => /\ lastRead'.remaining_minutes = lastWrite.remaining_minutes
              /\ lastRead'.is_complete = lastWrite.is_complete
              /\ lastRead'.remaining_minutes >= 0
              /\ lastRead'.is_complete = (lastRead'.remaining_minutes = 0) ]_vars

\* A query has returned the completed status a monitor wrote.
C5_Witness ==
    /\ lastWrite.by > 0
    /\ lastRead.some /\ lastRead.is_complete /\ lastRead.remaining_minutes = 0

\* C6: a start call with an input that is not a time of day returns an error
\* and changes neither the slot nor the monitors, and spawns nothing.
C6_RejectedStart ==
    [][\A k \in 1..Len(TimeInputs) :
        (~ValidInput[k] /\ (StartRejectedStep(k) \/ StartCommitStep(k)))
        => /\ startResult' = "Err"
           /\ state' = state
           /\ monitors' = monitors
           /\ starter' = starter /\ starter.pc = "idle" ]_vars

\* A call was rejected after a session had started; the session's status is
\* still in the slot.
C6_Witness ==
    /\ startResult = "Err"
    /\ Len(monitors) = 1
    /\ state.some

\* C7: the end instant a start computes is start2 + (480 - (end1 - start1))
\* minutes of the day of the call, a function of the input; 08:00, 12:00,
\* 13:00 gives 17:00.
C7_SessionPlan ==
    starter.pc = "spawn"
    => /\ starter.expected_end
          = DateNaive(starter.born) + ClaimedEndMinute[starter.inp] * UnitsPerMinute
       /\ starter.inp = 1
          => /\ starter.expected_end = DateNaive(starter.born) + 17 * 60 * UnitsPerMinute
             /\ state.end_time = <<"1", "7", ":", "0", "0">>

\* The call with 08:00, 12:00, 13:00 has stored its status and computed 17:00.
C7_Witness ==
    /\ starter.pc = "spawn"
    /\ starter.inp = 1
    /\ state.end_time = <<"1", "7", ":", "0", "0">>
    /\ state.remaining_minutes = 240

\* C8: a status query returns no status when nothing has been written, and
\* otherwise the remaining_minutes and is_complete of the last completed
\* write, both from that one write.
C8_UntornRead ==
    [][ReadStep
       => IF lastWrite.by < 0
          THEN lastRead' = None
          ELSE /\ lastRead'.some
               /\ lastRead'.remaining_minutes = lastWrite.remaining_minutes
               /\ lastRead'.is_complete = lastWrite.is_complete ]_vars

\* With two monitors, a query returned what monitor 2 wrote; monitor 1 is now
\* in the middle of a write that changes it.
C8_Witness ==
    /\ Len(monitors) = 2
    /\ lastWrite.by = 2
    /\ lastRead.some
    /\ lastRead.remaining_minutes = lastWrite.remaining_minutes
    /\ lastRead.is_complete = lastWrite.is_complete
    /\ lock = 1
    /\ state.remaining_minutes # lastWrite.remaining_minutes

\* C9: whatever the alert calls of a pass return, the monitor, which made the
\* pass's write before them, goes to its next sleep of 60 s when
\* remaining > 0 and ends when remaining <= 0; a monitor that has seen a sink
\* fail ends only at its completion.
C9_SinkFailureIgnored ==
    /\ [][\A i \in 1..Len(monitors) : \A sys \in SinkResults, ovl \in SinkResults :
            ActStep(i, sys, ovl, KeepAll)
            => IF RemainingAtReading(i) <= 0
               THEN monitors'[i].pc = "done"
               ELSE /\ monitors'[i].pc = "sleep"
                    /\ monitors'[i].wake = now + UnitsPerMinute ]_vars
    /\ [](\A i \in 1..Len(monitors) :
            (log[i].sinkFailed /\ monitors[i].pc = "done")
            => (log[i].completed = 1 /\ RemainingAtReading(i) <= 0))

\* A monitor saw a sink fail and is in a later pass.
C9_Witness ==
    \E i \in 1..Len(monitors) :
        /\ log[i].sinkFailed
        /\ monitors[i].pc = "store"
        /\ log[i].completed = 0

\* C10: a load made when the last save call succeeded with the text s
\* returns s: decrypt_data undoes encrypt_data.
C10_RoundTrip ==
    [][(get_pontomais_config /\ lastSaved.made /\ lastSaved.ok)
       => loadResult' = [ok |-> TRUE, value |-> lastSaved.plain] ]_vars

\* A text of two code points, one of three bytes, was saved and loaded.
C10_Witness ==
    /\ lastSaved.made /\ lastSaved.ok
    /\ loadResult.ok
    /\ loadResult.value = lastSaved.plain
    /\ loadResult.value = <<8364, 97>>

\* C11: a load of an entry that was altered in one place, or that no save
\* produced (not base64, fewer than 12 bytes, no matching tag), returns an
\* error: neither the empty text nor any other text.
C11_BadEntryIsAnError ==
    [][(entryOrigin \in {"altered", "foreign"} /\ loadResult' # loadResult
        /\ get_pontomais_config)
       => ~loadResult'.ok]_vars

\* A saved entry was altered and the load failed at the tag.
C11_Witness ==
    /\ entryOrigin = "altered"
    /\ loadResult = Err("Decryption failed")

\* C12: a load from a store that has no entry returns the empty text, not an
\* error, and leaves the store and its file as they were.
C12_NoEntryLoadsEmpty ==
    [][(~store.present /\ loadResult' # loadResult /\ loadResult' # NoLoad)
       => (loadResult' = Ok(<<>>) /\ store' = store /\ disk' = disk)]_vars

C12_Witness ==
    /\ ~store.present
    /\ ~disk.present
    /\ loadResult = Ok(<<>>)

\* C13: a save has returned success only if the encrypted text of its
\* configuration is the store's entry and the file holds it too; a save whose
\* persist step failed has returned an error.
C13_SuccessMeansPersisted ==
    /\ saveResult = "Ok" =>
          /\ lastSaved.ok
          /\ store.present
          /\ disk = store
          /\ store.value \in DOMAIN Decrypted
          /\ Decrypted[store.value] = Ok(lastSaved.plain)
    /\ (lastSaved.made /\ ~lastSaved.ok) => saveResult = "Err"

C13_Witness ==
    /\ saveResult = "Ok"
    /\ lastSaved.made
    /\ disk = store
    /\ store.present

\* C14: when the body of a response whose status is not between 200 and 299
\* has been read, the fetch returns an error with that status and that body,
\* and no times.
C14_NonSuccessStatusIsAnError ==
    [][(/\ fetchPc = "reading"
        /\ response'.read
        /\ (response.status < 200 \/ response.status > 299))
       => /\ fetchPc' = "idle"
          /\ ~fetchResult'.ok
          /\ fetchResult'.status = response.status
          /\ fetchResult'.body = response'.body
          /\ fetchResult'.times = <<>>]_vars

C14_Witness ==
    /\ fetchPc = "idle"
    /\ response.read
    /\ response.status = 401
    /\ response.body = Body(<<Day(<<Card("08:00"), Card("12:00")>>)>>)
    /\ fetchResult.status = 401
    /\ fetchResult.body = response.body

\* C15: when the body of a response with a status between 200 and 299 has
\* been read and it has the shape of a time-card response, the fetch returns
\* the times of its first work-day, one per entry and in the entries' order,
\* and no times when it has no work-day.
C15_TimesOfFirstWorkDay ==
    [][(/\ fetchPc = "reading"
        /\ response'.read
        /\ response.status >= 200 /\ response.status <= 299
        /\ response'.body \in WellFormedBodies)
       => LET days == response'.body.work_days
              times == fetchResult'.times
          IN /\ fetchPc' = "idle"
             /\ fetchResult'.ok
             /\ days = <<>> => times = <<>>
             /\ days # <<>> =>
                   /\ Len(times) = Len(days[1].time_cards)
                   /\ \A c \in 1..Len(times) : times[c] = days[1].time_cards[c].time]_vars

C15_Witness ==
    /\ fetchPc = "idle"
    /\ response.read
    /\ response.status = 200
    /\ response.body = Body(<<Day(<<Card("12:00"), Card("08:00")>>), Day(<<Card("08:00")>>)>>)
    /\ fetchResult.ok
    /\ fetchResult.times = <<"12:00", "08:00">>

\* C16: a fetch that is waiting for the service can end its wait by a step
\* of its own, without a response.
C16_WaitEndsWithoutResponse ==
    fetchPc \in {"awaiting", "reading"} => ENABLED ClientNext

\* C20: a fetch call has sent at most one request, and none when the
\* configuration could not be loaded, is empty, is not JSON or lacks one of
\* the five fields.
Lacks(text, f) == text.kind # "object" \/ text.fields[f] = "absent"

BadCredentials(loaded) ==
    \/ ~loaded.ok
    \/ loaded.text.kind \in {"empty", "invalid"}
    \/ \E f \in 1..5 : Lacks(loaded.text, f)

C20_AtMostOneRequest ==
    /\ requests <= 1
    /\ BadCredentials(loadedConfig) => (requests = 0 /\ fetchPc = "idle")

C20_Witness ==
    /\ requests = 1
    /\ fetchPc = "idle"
    /\ ~BadCredentials(loadedConfig)
    /\ fetchResult = FetchErr("Request failed")

\* C17: a call of stop_work_monitoring leaves the slot, its lock and every
\* monitor as they were, and a monitor that was running at the call ends
\* only by its own completion, having fired its completion alerts once.
C17_StopCancelsNothing ==
    /\ [][(\E i \in 1..Len(log) : ~log[i].stopped /\ log'[i].stopped)
          => (state' = state /\ lock' = lock /\ monitors' = monitors)]_vars
    /\ [](\A i \in 1..Len(monitors) :
            (log[i].stopped /\ monitors[i].pc = "done") => log[i].completed = 1)

C17_Witness ==
    \E i \in 1..Len(monitors) :
        /\ log[i].stopped
        /\ monitors[i].pc = "done"
        /\ log[i].completed = 1
        /\ state.some /\ state.is_complete

\* C18: the step of a start that leaves it about to spawn puts the session's
\* initial status in the slot (not complete, 480 - period1 minutes remaining,
\* the end as HH:MM) and spawns nothing yet; the spawn returns Ok with the
\* new monitor not having made a pass; so no monitor exists without a
\* status in the slot.
C18_InitialStatusBeforeSpawn ==
    /\ [][(starter.pc = "idle" /\ starter'.pc = "spawn")
          => /\ state' = [some |-> TRUE,
                          remaining_minutes |-> ClaimedRemaining[starter'.inp],
                          is_complete |-> FALSE,
                          end_time |-> ClaimedEndText[starter'.inp]]
             /\ monitors' = monitors]_vars
    /\ [][(starter.pc = "spawn" /\ starter'.pc = "idle")
          => /\ startResult' = "Ok"
             /\ Len(monitors') = Len(monitors) + 1
             /\ monitors'[Len(monitors')].pc = "sleep"
             /\ state' = state]_vars
    /\ []((starter.pc = "spawn" \/ Len(monitors) > 0) => state.some)

\* The second start has replaced the complete status of the first session,
\* whose end had passed, and has not spawned its monitor yet.
C18_Witness ==
    /\ starter.pc = "spawn"
    /\ starter.inp = 1
    /\ Len(monitors) = 1
    /\ monitors[1].pc = "done"
    /\ state = [some |-> TRUE, remaining_minutes |-> 240, is_complete |-> FALSE,
                end_time |-> <<"1", "7", ":", "0", "0">>]

\* C19: a start whose first period is longer than 480 minutes, or negative,
\* is not rejected and plans the end start2 + (480 - period1); a monitor whose
\* end had passed when its session started never warns, makes one pass, which
\* leaves the status complete with 0 minutes remaining, fires its completion
\* alerts once and ends.
OddPeriod(k) ==
    ValidInput[k] /\ (ClaimedRemaining[k] < 0 \/ ClaimedRemaining[k] > 480)

C19_OddPeriodAccepted ==
    /\ [][\A k \in 1..Len(TimeInputs) :
            OddPeriod(k) => ~(starter.pc = "idle" /\ startResult' = "Err"
                              /\ StartRejectedStep(k))]_vars
    /\ []((starter.pc = "spawn" /\ OddPeriod(starter.inp))
          => /\ starter.expected_end
                  = DateNaive(starter.born) + ClaimedEndMinute[starter.inp] * UnitsPerMinute
             /\ state.remaining_minutes = ClaimedRemaining[starter.inp]
             /\ ~state.is_complete)
    /\ [](\A i \in 1..Len(monitors) :
            monitors[i].end_time <= log[i].born
            => /\ log[i].warned = <<>>
               /\ log[i].passes <= 1
               /\ log[i].passes = 1 => (state.is_complete /\ state.remaining_minutes = 0)
               /\ monitors[i].pc = "act" => log[i].passes = 1
               /\ monitors[i].pc = "done" => (log[i].passes = 1 /\ log[i].completed = 1))

\* The session of 08:00, 17:00, 13:00, started at 16:55 with the end 12:00:
\* its monitor has ended after one pass, without a warning.
C19_Witness ==
    /\ Len(monitors) = 1
    /\ monitors[1].end_time < log[1].born
    /\ monitors[1].pc = "done"
    /\ log[1].passes = 1
    /\ log[1].completed = 1
    /\ log[1].warned = <<>>
    /\ state.is_complete
    /\ state.remaining_minutes = 0
    /\ state.end_time = <<"1", "2", ":", "0", "0">>

\* C21 as claimed: every status a query has returned has remaining_minutes
\* of 0 or more.
C21_ReadsAreNonNegative ==
    lastRead.some => lastRead.remaining_minutes >= 0

\* C21 as amended: a query returns a negative remaining_minutes only when the
\* slot was last written by a start, and then it is that start's
\* 480 - period1 with is_complete false; what a monitor's pass wrote is
\* returned as 0 or more.
C21_NegativeOnlyFromStart ==
    [][ReadStep =>
         /\ lastWrite.by > 0 => lastRead'.remaining_minutes >= 0
         /\ lastRead'.remaining_minutes < 0
              => /\ lastWrite.by = 0
                 /\ ~lastRead'.is_complete
                 /\ \E k \in 1..Len(TimeInputs) :
                       /\ ValidInput[k]
                       /\ ClaimedRemaining[k] = lastRead'.remaining_minutes
                       /\ ClaimedEndText[k] = lastRead'.end_time]_vars

\* A query between the start of 08:00, 17:00, 13:00 and the first pass after
\* it has returned -60.
C21_Witness ==
    /\ lastRead.some
    /\ lastRead.remaining_minutes = -60
    /\ lastWrite.by = 0
    /\ lastRead = state

\* C22: is_complete goes from true back to false only by the step of a
\* start that stores its initial status, never by a monitor's pass; so the
\* queries after one that returned true return true until the next start.
C22_CompleteStaysComplete ==
    [][(state.is_complete /\ ~state'.is_complete)
       => (starter.pc = "idle" /\ starter'.pc = "spawn")]_vars

\* C23: the slot's end_time changes only in the step of a start that stores
\* its initial status, which sets it to that start's end as HH:MM; so it is
\* always the end of the most recent successful start, whichever monitor
\* wrote the other two fields last.
C23_TickKeepsEndTime ==
    [][ /\ state'.end_time # state.end_time
            => (starter.pc = "idle" /\ starter'.pc = "spawn")
        /\ (starter.pc = "idle" /\ starter'.pc = "spawn")
            => state'.end_time = ClaimedEndText[starter'.inp] ]_vars

\* After the starts with the ends 17:00 and 12:00, in this order, the monitor
\* of the first session has written 1 minute remaining; end_time is 12:00.
C23_Witness ==
    /\ Len(monitors) = 2
    /\ lastWrite.by = 1
    /\ lock = 0
    /\ state.remaining_minutes = 1
    /\ ~state.is_complete
    /\ state.end_time = <<"1", "2", ":", "0", "0">>
    /\ monitors[1].end_time > monitors[2].end_time

\* C24: the warnings one monitor has fired are at most three, carry counts
\* among 3, 2 and 1, each smaller than the one before; a monitor that has
\* ended fires no further warning.
C24_AtMostThreeWarnings ==
    /\ [](\A i \in 1..Len(log) :
            LET w == log[i].warned IN
            /\ Len(w) <= 3
            /\ \A j \in 1..Len(w) : w[j] \in {1, 2, 3}
            /\ \A j \in 1..(Len(w) - 1) : w[j + 1] < w[j])
    /\ [][\A i \in 1..Len(monitors) :
            (monitors[i].pc = "done" \/ log[i].completed > 0)
            => log'[i].warned = log[i].warned]_vars

\* A monitor has warned at 3, 2 and 1 minutes, then completed and ended.
C24_Witness ==
    \E i \in 1..Len(monitors) :
        /\ log[i].warned = <<3, 2, 1>>
        /\ log[i].completed = 1
        /\ monitors[i].pc = "done"

\* C25: a monitor has published is_complete = true, or fired its completion
\* alerts, only in a pass whose clock reading was less than one minute
\* before its end, or after it.
C25_NeverAMinuteEarly ==
    \A i \in 1..Len(monitors) :
        ( \/ (monitors[i].pc \in {"act", "done"} /\ lastWrite.by = i /\ lastWrite.is_complete)
          \/ log[i].completed > 0 )
        => monitors[i].end_time - monitors[i].wake < UnitsPerMinute

\* A monitor has completed in a pass whose reading was before its end.
C25_Witness ==
    \E i \in 1..Len(monitors) :
        /\ log[i].completed = 1
        /\ lastWrite.by = i
        /\ lastWrite.is_complete
        /\ monitors[i].wake < monitors[i].end_time
        /\ monitors[i].end_time - monitors[i].wake < UnitsPerMinute

\* C26: a save that returns an error leaves what a load returns as it was
\* before the save.
C26_FailedSaveChangesNothing ==
    [][saveResult' = "Err" => Loaded(store') = Loaded(store)]_vars

====
